---- MODULE Spec2Model ----
(***************************************************************************)
(* A model of the geometry batch of immediate-mode (src/src/draw.rs): the  *)
(* vertex and index sequences of DrawData and the operations that append   *)
(* to them (extend, tri, tri_multicolor, rect, rect_uv, polyline,          *)
(* rect_polyline), with the Vec2 arithmetic of src/src/math.rs and the     *)
(* Color to byte conversion of src/src/color.rs they are built on.         *)
(***************************************************************************)
EXTENDS Integers, Sequences, FiniteSets, TLC

(***************************************************************************)
(* Bounds of the model.                                                    *)
(***************************************************************************)
\* number of batch operations in one behaviour
MaxCalls == 2
\* longest point list handed to polyline and rect_polyline
MaxPoints == 3
\* longest vertex list handed to extend
MaxExtend == 2
\* width of an index in the model (u32 in the program): every count the
\* bounds above allow stays far below 2^IndexBits
IndexBits == 16

\* number of Color::alpha calls in one behaviour
MaxAlphas == 2
\* number of frames in one behaviour
MaxFrames == 2
\* number of interaction queries in one behaviour
MaxQueries == 3
\* the largest width and height of a Texture, the number of accesses to it
MaxSide == 2
MaxAccesses == 3

\* width of an index in the specification of narrow indices, where a batch
\* outgrows its indices within MaxCalls operations
NarrowBits == 3

(***************************************************************************)
(* f32.  A value is a pair <<n, d>>: the rational n/d in lowest terms with *)
(* d > 0 when it is finite and not zero, <<0, 1>> and <<0, -1>> for +0.0   *)
(* and -0.0, <<1, 0>> and <<-1, 0>> for the infinities and <<0, 0>> for    *)
(* NaN.  The arithmetic is IEEE 754's on these values and is exact; the    *)
(* inputs of the model are chosen among the values for which the f32       *)
(* results are exact too (small integers and halves, lengths 1 and 2).     *)
(***************************************************************************)
Abs(n) == IF n < 0 THEN -n ELSE n

RECURSIVE GCD(_, _)
GCD(a, b) == IF b = 0 THEN a ELSE GCD(b, a % b)

NaN == <<0, 0>>
PosZero == <<0, 1>>
NegZero == <<0, -1>>

IsNaN(a) == a = NaN
IsInf(a) == a[2] = 0 /\ a[1] # 0
IsZero(a) == a[1] = 0 /\ a[2] # 0

\* the sign bit as +1 or -1
Sign(a) == IF a[1] < 0 \/ a = NegZero THEN -1 ELSE 1

Zero(s) == IF s < 0 THEN NegZero ELSE PosZero
Inf(s) == IF s < 0 THEN <<-1, 0>> ELSE <<1, 0>>

\* the finite value n/d (d # 0) in lowest terms; a zero takes the sign s
Ratio(n, d, s) ==
    IF n = 0 THEN Zero(s)
    ELSE LET g == GCD(Abs(n), Abs(d))
             m == IF d < 0 THEN -n ELSE n
         IN <<m \div g, Abs(d) \div g>>

\* an integer literal, such as 1.0 or 0f32
F(n) == Ratio(n, 1, 1)

FNeg(a) ==
    IF IsNaN(a) THEN NaN
    ELSE IF IsZero(a) THEN Zero(-Sign(a))
    ELSE <<-a[1], a[2]>>

FAdd(a, b) ==
    IF IsNaN(a) \/ IsNaN(b) THEN NaN
    ELSE IF IsInf(a) /\ IsInf(b) THEN (IF a = b THEN a ELSE NaN)
    ELSE IF IsInf(a) THEN a
    ELSE IF IsInf(b) THEN b
    ELSE IF IsZero(a) /\ IsZero(b)
         THEN (IF a = NegZero /\ b = NegZero THEN NegZero ELSE PosZero)
    ELSE IF IsZero(a) THEN b
    ELSE IF IsZero(b) THEN a
    ELSE Ratio(a[1] * b[2] + b[1] * a[2], a[2] * b[2], 1)

FSub(a, b) == FAdd(a, FNeg(b))

FMul(a, b) ==
    IF IsNaN(a) \/ IsNaN(b) THEN NaN
    ELSE IF (IsInf(a) /\ IsZero(b)) \/ (IsZero(a) /\ IsInf(b)) THEN NaN
    ELSE IF IsInf(a) \/ IsInf(b) THEN Inf(Sign(a) * Sign(b))
    ELSE Ratio(a[1] * b[1], Abs(a[2] * b[2]), Sign(a) * Sign(b))

FDiv(a, b) ==
    IF IsNaN(a) \/ IsNaN(b) THEN NaN
    ELSE IF (IsInf(a) /\ IsInf(b)) \/ (IsZero(a) /\ IsZero(b)) THEN NaN
    ELSE IF IsInf(a) \/ IsZero(b) THEN Inf(Sign(a) * Sign(b))
    ELSE IF IsInf(b) THEN Zero(Sign(a) * Sign(b))
    ELSE Ratio(a[1] * b[2], a[2] * Abs(b[1]) * Sign(b), Sign(a) * Sign(b))

\* a < b on values that are not NaN
FLess(a, b) ==
    IF IsInf(a) \/ IsInf(b)
    THEN (IF a = b THEN FALSE
          ELSE IF IsInf(a) THEN Sign(a) < 0 ELSE Sign(b) > 0)
    ELSE a[1] * Abs(b[2]) < b[1] * Abs(a[2])

\* f32::max: the other operand when one is NaN
FMax(a, b) ==
    IF IsNaN(a) THEN b
    ELSE IF IsNaN(b) THEN a
    ELSE IF FLess(a, b) THEN b ELSE a

\* the integer whose square is n; the model only takes roots that are exact
ExactRoot(n) == CHOOSE r \in 0..n : r * r = n

\* f32::sqrt of a value that is not negative
FSqrt(a) ==
    IF IsNaN(a) \/ IsInf(a) \/ IsZero(a) THEN a
    ELSE <<ExactRoot(a[1]), ExactRoot(a[2])>>

(***************************************************************************)
(* Vec2 (src/src/math.rs).                                                 *)
(***************************************************************************)
Vec2(x, y) == [x |-> x, y |-> y]

\* the array [self.x, self.y] a position or texture coordinate is stored as
Vec2Into(v) == <<v.x, v.y>>

Vec2Add(a, b) == Vec2(FAdd(a.x, b.x), FAdd(a.y, b.y))
Vec2Sub(a, b) == Vec2(FSub(a.x, b.x), FSub(a.y, b.y))
Vec2Mul(v, s) == Vec2(FMul(v.x, s), FMul(v.y, s))
Vec2Dot(a, b) == FAdd(FMul(a.x, b.x), FMul(a.y, b.y))
Vec2Normal(v) == Vec2(FNeg(v.y), v.x)
Vec2Len2(v) == FAdd(FMul(v.x, v.x), FMul(v.y, v.y))
Vec2Len(v) == FSqrt(Vec2Len2(v))
\* 0.000_000_01, the floor of the divisor of unit()
UnitFloor == <<1, 100000000>>
Vec2Unit(v) == Vec2Mul(v, FDiv(F(1), FMax(Vec2Len(v), UnitFloor)))

(***************************************************************************)
(* Color (src/src/color.rs).  Color(pub u32): the 32-bit value 0xRRGGBBAA  *)
(* is held as its two 16-bit halves, hi = 0xRRGG and lo = 0xBBAA.           *)
(***************************************************************************)
Color(hi, lo) == [hi |-> hi, lo |-> lo]

\* a & b and a | b on unsigned integers
RECURSIVE BitAnd(_, _)
BitAnd(a, b) ==
    IF a = 0 \/ b = 0 THEN 0
    ELSE (a % 2) * (b % 2) + 2 * BitAnd(a \div 2, b \div 2)

RECURSIVE BitOr(_, _)
BitOr(a, b) ==
    IF a = 0 THEN b
    ELSE IF b = 0 THEN a
    ELSE (IF a % 2 = 1 \/ b % 2 = 1 THEN 1 ELSE 0) + 2 * BitOr(a \div 2, b \div 2)

\* Color::alpha without the mask: the new alpha is or-ed onto the old one
AlphaUnmasked(c, a) == Color(c.hi, BitOr(c.lo, a))

\* Color::alpha: Color((self.0 & 0xFF_FF_FF_00) | alpha as u32); the mask
\* is 0xFFFF on the high half and 0xFF00 on the low half
alpha(c, a) == Color(BitAnd(c.hi, 65535), BitOr(BitAnd(c.lo, 65280), a))

\* the conversion with the bytes in the order of a little-endian u32
ColorIntoLittleEndian(c) == <<c.lo % 256, c.lo \div 256, c.hi % 256, c.hi \div 256>>

\* impl Into<[u8; 4]> for Color: each byte is masked out and shifted down
ColorInto(c) == <<c.hi \div 256, c.hi % 256, c.lo \div 256, c.lo % 256>>

(***************************************************************************)
(* The batch (src/src/draw.rs).                                            *)
(***************************************************************************)
VARIABLES
    verts,           \* DrawData.verts
    indicies,        \* DrawData.indicies
    vlenAtPush,      \* for each index, verts.len() at the moment it was pushed
    calls,           \* the operations called so far, each with its arguments
    indexBits,       \* the width of an index
    overflow_checks, \* the build: TRUE when integer overflow panics (debug)
    panicked,        \* an operation has panicked
    colorValue,      \* a Color value
    bytes,           \* the [u8; 4] the Color was converted into, if it was
    alphas,          \* the calls of Color::alpha so far
    phase,           \* frame controller: "building" or "view"
    frame,           \* the number of the frame
    input,           \* the Input snapshot: pointer position or None, and button
    dropped,         \* the number of vertices the last begin_frame cleared
    held,            \* InteractionContext: the held identifier, 0 for none
    hover,           \* InteractionContext: the hover identifier
    previous_hover,  \* InteractionContext: hover at the end of the last frame
    events,          \* the queries made so far, each with its Event
    lib_verts,       \* the DrawData of lib.rs: its field verts
    lib_indicies,    \* the DrawData of lib.rs: its field indicies
    view,            \* what verts() and indicies() of draw.rs returned last
    texture,         \* a Texture: width, height and pixels, row by row
    cells,           \* for each coordinate of the texture, the value last written at it
    access           \* the last access to the texture and how it ended

batchVars == <<verts, indicies, vlenAtPush, calls>>
buildVars == <<indexBits, overflow_checks>>
colorVars == <<colorValue, bytes, alphas>>
frameVars == <<phase, frame, input, dropped>>
contextVars == <<held, hover, previous_hover, events>>
libVars == <<lib_verts, lib_indicies, view>>
textureVars == <<texture, cells, access>>

vars == <<batchVars, buildVars, panicked, colorVars, frameVars, contextVars, libVars, textureVars>>

\* u32 arithmetic at the width of the model
U32Modulus == 2 ^ indexBits
\* n as u32: the cast keeps the low bits and never fails
AsU32(n) == n % U32Modulus
\* what a + b is when it does not fit and the build checks overflow: a panic
Overflow == -1
\* a + b on u32: wraps in a build without overflow checks, panics in one with
AddU32(a, b) ==
    IF a + b < U32Modulus THEN a + b
    ELSE IF overflow_checks THEN Overflow
    ELSE (a + b) % U32Modulus

\* Vert = ([f32; 2], [f32; 2], [u8; 4]); V: From<Vert> is the tuple itself
Vert(pos, uv, color) == [pos |-> pos, uv |-> uv, color |-> color]

OPAQUE_UV == <<F(0), F(0)>>

\* DrawData::default()
DrawDataDefault == [verts |-> <<>>, indicies |-> <<>>, vlenAtPush |-> <<>>]

\* PushVerts with the batch's vertices replaced, not extended
PushVertsReplacing(d, vs) == [d EXCEPT !.verts = vs]

\* PushVerts putting the new vertices in front of the batch
PushVertsFirst(d, vs) == [d EXCEPT !.verts = vs \o @]

\* self.verts.extend(vs)
PushVerts(d, vs) == [d EXCEPT !.verts = @ \o vs]

\* self.indicies.extend(is)
PushIndicies(d, is) ==
    [d EXCEPT !.indicies = @ \o is,
              !.vlenAtPush = @ \o [i \in 1..Len(is) |-> Len(d.verts)]]

\* quad_indicies without the last index of the second triangle
QuadIndiciesShort(first_index) ==
    << first_index, AddU32(first_index, 1), AddU32(first_index, 2),
       AddU32(first_index, 1), AddU32(first_index, 2) >>

\* quad_indicies as a fan around the first vertex: (0,1,2),(0,2,3)
QuadIndiciesFan(first_index) ==
    << first_index, AddU32(first_index, 1), AddU32(first_index, 2),
       first_index, AddU32(first_index, 2), AddU32(first_index, 3) >>

quad_indicies(first_index) ==
    << first_index, AddU32(first_index, 1), AddU32(first_index, 2),
       AddU32(first_index, 1), AddU32(first_index, 2), AddU32(first_index, 3) >>

\* extend with base_index read after the vertices are pushed
ExtendLateBase(d, vs, is) ==
    LET base_index == AsU32(Len(d.verts) + Len(vs))
    IN PushIndicies(PushVerts(d, vs),
                    [i \in 1..Len(is) |-> AddU32(base_index, is[i])])

\* extend pushing the relative indices as they are
ExtendAbsolute(d, vs, is) == PushIndicies(PushVerts(d, vs), is)

extend(d, vs, is) ==
    LET base_index == AsU32(Len(d.verts))
    IN PushIndicies(PushVerts(d, vs),
                    [i \in 1..Len(is) |-> AddU32(base_index, is[i])])

\* tri with the last two corners exchanged
TriReordered(d, color, a, b, c) ==
    LET base_index == AsU32(Len(d.verts))
        col == ColorInto(color)
    IN PushIndicies(
           PushVerts(d, << Vert(Vec2Into(a), OPAQUE_UV, col),
                           Vert(Vec2Into(c), OPAQUE_UV, col),
                           Vert(Vec2Into(b), OPAQUE_UV, col) >>),
           << base_index, AddU32(base_index, 1), AddU32(base_index, 2) >>)

tri(d, color, a, b, c) ==
    LET base_index == AsU32(Len(d.verts))
        col == ColorInto(color)
    IN PushIndicies(
           PushVerts(d, << Vert(Vec2Into(a), OPAQUE_UV, col),
                           Vert(Vec2Into(b), OPAQUE_UV, col),
                           Vert(Vec2Into(c), OPAQUE_UV, col) >>),
           << base_index, AddU32(base_index, 1), AddU32(base_index, 2) >>)

\* a, b, c are pairs <<position, color>>
tri_multicolor(d, a, b, c) ==
    LET base_index == AsU32(Len(d.verts))
    IN PushIndicies(
           PushVerts(d, << Vert(Vec2Into(a[1]), OPAQUE_UV, ColorInto(a[2])),
                           Vert(Vec2Into(b[1]), OPAQUE_UV, ColorInto(b[2])),
                           Vert(Vec2Into(c[1]), OPAQUE_UV, ColorInto(c[2])) >>),
           << base_index, AddU32(base_index, 1), AddU32(base_index, 2) >>)

\* rect with its corners pushed in the order of the perimeter
RectPerimeter(d, color, a, b) ==
    LET base_index == AsU32(Len(d.verts))
        col == ColorInto(color)
    IN PushIndicies(
           PushVerts(d, << Vert(<<a.x, a.y>>, OPAQUE_UV, col),
                           Vert(<<a.x, b.y>>, OPAQUE_UV, col),
                           Vert(<<b.x, b.y>>, OPAQUE_UV, col),
                           Vert(<<b.x, a.y>>, OPAQUE_UV, col) >>),
           << base_index, AddU32(base_index, 1), AddU32(base_index, 2),
              AddU32(base_index, 1), AddU32(base_index, 2), AddU32(base_index, 3) >>)

rect(d, color, a, b) ==
    LET base_index == AsU32(Len(d.verts))
        col == ColorInto(color)
    IN PushIndicies(
           PushVerts(d, << Vert(<<a.x, a.y>>, OPAQUE_UV, col),
                           Vert(<<a.x, b.y>>, OPAQUE_UV, col),
                           Vert(<<b.x, a.y>>, OPAQUE_UV, col),
                           Vert(<<b.x, b.y>>, OPAQUE_UV, col) >>),
           quad_indicies(base_index))

\* rect_uv with the texture coordinates of the two mixed corners exchanged
RectUvMixed(d, color, ca, cb) ==
    LET a == ca[1]
        uv_a == ca[2]
        b == cb[1]
        uv_b == cb[2]
        base_index == AsU32(Len(d.verts))
        col == ColorInto(color)
    IN PushIndicies(
           PushVerts(d, << Vert(<<a.x, a.y>>, <<uv_a.x, uv_a.y>>, col),
                           Vert(<<a.x, b.y>>, <<uv_b.x, uv_a.y>>, col),
                           Vert(<<b.x, a.y>>, <<uv_a.x, uv_b.y>>, col),
                           Vert(<<b.x, b.y>>, <<uv_b.x, uv_b.y>>, col) >>),
           << base_index, AddU32(base_index, 1), AddU32(base_index, 2),
              AddU32(base_index, 1), AddU32(base_index, 2), AddU32(base_index, 3) >>)

\* ca = <<a, uv_a>>, cb = <<b, uv_b>>
rect_uv(d, color, ca, cb) ==
    LET a == ca[1]
        uv_a == ca[2]
        b == cb[1]
        uv_b == cb[2]
        base_index == AsU32(Len(d.verts))
        col == ColorInto(color)
    IN PushIndicies(
           PushVerts(d, << Vert(<<a.x, a.y>>, <<uv_a.x, uv_a.y>>, col),
                           Vert(<<a.x, b.y>>, <<uv_a.x, uv_b.y>>, col),
                           Vert(<<b.x, a.y>>, <<uv_b.x, uv_a.y>>, col),
                           Vert(<<b.x, b.y>>, <<uv_b.x, uv_b.y>>, col) >>),
           quad_indicies(base_index))

\* 0.5, the factor that halves the thickness
Half == <<1, 2>>

\* (p.into(), OPAQUE_UV, color).into()
VertAt(p, col) == Vert(Vec2Into(p), OPAQUE_UV, col)

\* first_index is read, the vertices vs are pushed, then quad_indicies![first_index]
PushQuad(d, vs) ==
    PushIndicies(PushVerts(d, vs), quad_indicies(AsU32(Len(d.verts))))

\* d.normal().unit() for d = q - p
SegmentNormal(p, q) == Vec2Unit(Vec2Normal(Vec2Sub(q, p)))

\* the normal of the tangent of the join of the segments p0 p1 and p1 p2
Miter(p0, p1, p2) ==
    Vec2Normal(Vec2Unit(Vec2Add(Vec2Unit(Vec2Sub(p2, p1)), Vec2Unit(Vec2Sub(p1, p0)))))

\* miter * length, where length = thickness / miter.dot(n01)
MiterOffset(miter, n01, thickness) ==
    Vec2Mul(miter, FDiv(thickness, Vec2Dot(miter, n01)))

\* PolylineFirst with its two vertices in the other order
PolylineFirstFlipped(d, col, p, nf) ==
    PushQuad(d, << VertAt(Vec2Sub(p, nf), col), VertAt(Vec2Add(p, nf), col) >>)

\* the first point of polyline: nf is (points[0] - points[1]).normal().unit() * thickness
PolylineFirst(d, col, p, nf) ==
    PushQuad(d, << VertAt(Vec2Add(p, nf), col), VertAt(Vec2Sub(p, nf), col) >>)

\* PolylineJoin reading first_index after its vertices are pushed
PolylineJoinDetached(d, col, p1, o) ==
    PushIndicies(
        PushVerts(d, << VertAt(Vec2Sub(p1, o), col), VertAt(Vec2Add(p1, o), col) >>),
        quad_indicies(AsU32(Len(d.verts) + 2)))

\* an interior point p1 of polyline: o is miter * length
PolylineJoin(d, col, p1, o) ==
    PushQuad(d, << VertAt(Vec2Sub(p1, o), col), VertAt(Vec2Add(p1, o), col) >>)

\* the loop of polyline over the interior points: i1 is the 0-based index
\* of the point being joined, points[i1 + 1] in a 1-based sequence
RECURSIVE PolylineJoins(_, _, _, _, _)
PolylineJoins(d, col, thickness, points, i1) ==
    IF i1 >= Len(points) - 1 THEN d
    ELSE PolylineJoins(
             PolylineJoin(d, col, points[i1 + 1],
                 MiterOffset(Miter(points[i1], points[i1 + 1], points[i1 + 2]),
                             SegmentNormal(points[i1], points[i1 + 1]),
                             thickness)),
             col, thickness, points, i1 + 1)

\* PolylineLast pushing one vertex, at the point itself
PolylineLastSingle(d, col, p, nl) == PushVerts(d, << VertAt(p, col) >>)

\* PolylineLast pushing no vertex
PolylineLastMissing(d, col, p, nl) == d

\* PolylineLast pushing indices too, as every point before it does
PolylineLastJoined(d, col, p, nl) ==
    PushQuad(d, << VertAt(Vec2Sub(p, nl), col), VertAt(Vec2Add(p, nl), col) >>)

\* the last point of polyline: nl is (points[last] - points[last - 1]).normal().unit()
\* * thickness; its indices were pushed with the point before it
PolylineLast(d, col, p, nl) ==
    PushVerts(d, << VertAt(Vec2Sub(p, nl), col), VertAt(Vec2Add(p, nl), col) >>)

\* polyline once the thickness is halved and the color converted
PolylineFrom(d, col, thickness, points) ==
    PolylineLast(
        PolylineJoins(
            PolylineFirst(d, col, points[1],
                Vec2Mul(SegmentNormal(points[2], points[1]), thickness)),
            col, thickness, points, 1),
        col, points[Len(points)],
        Vec2Mul(SegmentNormal(points[Len(points) - 1], points[Len(points)]), thickness))

polyline(d, color, thickness, points) ==
    IF Len(points) < 2 THEN d
    ELSE PolylineFrom(d, ColorInto(color), FMul(thickness, Half), points)

\* RectSegment pushing only the vertices of the segment's end, as if the
\* rectangles shared the vertices where they meet
RectSegmentJoined(d, col, p, q, o) ==
    PushQuad(d, << VertAt(Vec2Sub(q, o), col), VertAt(Vec2Add(q, o), col) >>)

\* the rectangle of the segment from p to q of rect_polyline, o being the
\* segment's normal scaled to the half thickness
RectSegment(d, col, p, q, o) ==
    PushQuad(d, << VertAt(Vec2Sub(p, o), col), VertAt(Vec2Add(p, o), col),
                   VertAt(Vec2Sub(q, o), col), VertAt(Vec2Add(q, o), col) >>)

\* the loop of rect_polyline over the segments after the first: i1 is the
\* 0-based index of the segment's first point; n is (p2 - p1).normal().unit()
RECURSIVE RectPolylineSegments(_, _, _, _, _)
RectPolylineSegments(d, col, thickness, points, i1) ==
    IF i1 >= Len(points) - 1 THEN d
    ELSE RectPolylineSegments(
             RectSegment(d, col, points[i1 + 1], points[i1 + 2],
                 Vec2Mul(SegmentNormal(points[i1 + 1], points[i1 + 2]), thickness)),
             col, thickness, points, i1 + 1)

\* rect_polyline once the thickness is halved and the color converted: the
\* first rectangle is offset by nf = (points[0] - points[1]).normal().unit() * thickness
RectPolylineFrom(d, col, thickness, points) ==
    RectPolylineSegments(
        RectSegment(d, col, points[1], points[2],
            Vec2Mul(SegmentNormal(points[2], points[1]), thickness)),
        col, thickness, points, 1)

\* rect_polyline returning early only on an empty list, and marking a
\* single point with one vertex
RectPolylineDot(d, color, thickness, points) ==
    IF Len(points) < 1 THEN d
    ELSE IF Len(points) < 2 THEN PushVerts(d, << VertAt(points[1], ColorInto(color)) >>)
    ELSE RectPolylineFrom(d, ColorInto(color), FMul(thickness, Half), points)

rect_polyline(d, color, thickness, points) ==
    IF Len(points) < 2 THEN d
    ELSE RectPolylineFrom(d, ColorInto(color), FMul(thickness, Half), points)

(***************************************************************************)
(* The arguments the operations are called with.                           *)
(***************************************************************************)
\* Color(0xFF_00_FF_00) and Color(0x00_FF_00_FF)
Colors == { Color(65280, 65280), Color(255, 255) }

Pt(x, y) == Vec2(F(x), F(y))

\* the corners of a triangle, in three of their orders
TriCorners ==
    { << Pt(0, 0), Pt(0, 1), Pt(1, 0) >>,
      << Pt(1, 0), Pt(0, 1), Pt(0, 0) >>,
      << Pt(0, 1), Pt(0, 0), Pt(1, 0) >> }

\* the corners of a rectangle, in every relative order
RectPoints == { Pt(0, 0), Pt(1, 2), Pt(2, 1) }

\* texture coordinates
UvPoints == { Vec2(F(0), Half), Vec2(F(1), F(0)) }

\* the vertices extend is handed: the first two of its documentation's example
ExtendVertex(i) ==
    IF i % 2 = 1
    THEN Vert(<<F(0), F(0)>>, <<F(0), F(0)>>, <<1, 0, 0, 1>>)
    ELSE Vert(<<F(0), Half>>, <<F(1), F(0)>>, <<0, 1, 0, 1>>)
\* one vertex list of every length up to MaxExtend
ExtendVerts == { [i \in 1..n |-> ExtendVertex(i)] : n \in 0..MaxExtend }
\* the relative indices extend is handed
ExtendIndicies == { <<>>, <<1, 0>>, <<0, 1, 2>> }

\* point lists along a line through (1, 1), every step of length 1: straight
\* lines in each of the four axis directions, and lines whose last step
\* turns back
Directions == { Pt(1, 0), Pt(-1, 0), Pt(0, 1), Pt(0, -1) }
Straight(n) == [j \in 1..(n - 1) |-> 1]
TurnsBack(n) == [j \in 1..(n - 1) |-> IF j = n - 1 THEN -1 ELSE 1]
RECURSIVE Offset(_, _)
Offset(sg, i) == IF i <= 1 THEN 0 ELSE Offset(sg, i - 1) + sg[i - 1]
Walk(e, sg, n) ==
    [i \in 1..n |-> Vec2Add(Pt(1, 1), Vec2Mul(e, F(Offset(sg, i))))]
PointLists ==
    { <<>>, << Pt(1, 1) >> }
    \cup { Walk(e, Straight(n), n) : e \in Directions, n \in 2..MaxPoints }
    \cup { Walk(Pt(1, 0), TurnsBack(n), n) : n \in 3..MaxPoints }

\* the line thickness: 2.0
Thicknesses == { F(2) }

(***************************************************************************)
(* The operations.                                                         *)
(***************************************************************************)
\* Option<T>: None, or Some(v)
None == <<>>
Some(v) == <<v>>

\* DrawData::default()
InitBatch ==
    /\ verts = DrawDataDefault.verts
    /\ indicies = DrawDataDefault.indicies
    /\ vlenAtPush = <<>>
    /\ calls = <<>>
    /\ panicked = FALSE

\* no Color is converted
IdleColor ==
    /\ colorValue = Color(0, 0)
    /\ bytes = <<>>
    /\ alphas = <<>>

\* the DrawData of lib.rs is not used and no accessor was called
NoLib ==
    /\ lib_verts = <<>>
    /\ lib_indicies = <<>>
    /\ view = None

\* no Texture is made
NoTexture ==
    /\ texture = [width |-> 0, height |-> 0, pixels |-> <<>>]
    /\ cells = <<>>
    /\ access = [n |-> 0, kind |-> "none"]

\* the batch is used on its own: there is no frame controller and no
\* InteractionContext
NoFrames ==
    /\ phase = "building"
    /\ frame = 1
    /\ input = [pointer |-> None, button |-> "up"]
    /\ dropped = 0
    /\ held = 0
    /\ hover = 0
    /\ previous_hover = 0
    /\ events = <<>>

\* a batch after construction, with indices of IndexBits bits: no count
\* reaches 2^IndexBits, so the build makes no difference
Init ==
    /\ InitBatch
    /\ indexBits = IndexBits
    /\ overflow_checks = FALSE
    /\ IdleColor
    /\ NoFrames
    /\ NoLib
    /\ NoTexture

DrawData == [verts |-> verts, indicies |-> indicies, vlenAtPush |-> vlenAtPush]

\* a draw call is made while the frame is built, and not after a panic; the
\* model stops after MaxCalls operations
MayCall ==
    /\ Len(calls) < MaxCalls
    /\ ~panicked
    /\ phase = "building"

\* the operation op with the arguments a on the batch d
Apply(d, op, a) ==
    CASE op = "extend" -> extend(d, a.verts, a.indicies)
      [] op = "tri" -> tri(d, a.color, a.a, a.b, a.c)
      [] op = "tri_multicolor" -> tri_multicolor(d, a.a, a.b, a.c)
      [] op = "rect" -> rect(d, a.color, a.a, a.b)
      [] op = "rect_uv" -> rect_uv(d, a.color, <<a.a, a.uv_a>>, <<a.b, a.uv_b>>)
      [] op = "polyline" -> polyline(d, a.color, a.thickness, a.points)
      [] op = "rect_polyline" -> rect_polyline(d, a.color, a.thickness, a.points)

\* an index of d could not be computed: an addition overflowed in a build
\* that checks overflow
Panics(d) ==
    /\ overflow_checks
    /\ \E i \in 1..Len(d.indicies) : d.indicies[i] = Overflow

\* the batch becomes d, or the operation panics and the batch is lost as it
\* was; the call is recorded with the lengths it found and with its shape,
\* the vertices and indices it appends to an empty batch
CallDraw(op, args, d) ==
    /\ IF Panics(d)
       THEN /\ panicked' = TRUE
            /\ UNCHANGED <<verts, indicies, vlenAtPush>>
       ELSE /\ verts' = d.verts
            /\ indicies' = d.indicies
            /\ vlenAtPush' = d.vlenAtPush
            /\ UNCHANGED panicked
    /\ calls' = Append(calls,
                   [op |-> op, k |-> Len(verts), m |-> Len(indicies), args |-> args,
                    shape |-> Apply(DrawDataDefault, op, args)])
    /\ UNCHANGED <<buildVars, colorVars, frameVars, contextVars, textureVars>>

\* a call on the DrawData of draw.rs alone
Call(op, args, d) ==
    /\ CallDraw(op, args, d)
    /\ UNCHANGED libVars

Extend ==
    /\ MayCall
    /\ \E vs \in ExtendVerts, is \in ExtendIndicies :
        Call("extend", [verts |-> vs, indicies |-> is], extend(DrawData, vs, is))

Tri ==
    /\ MayCall
    /\ \E color \in Colors, t \in TriCorners :
        Call("tri", [color |-> color, a |-> t[1], b |-> t[2], c |-> t[3]],
             tri(DrawData, color, t[1], t[2], t[3]))

TriMulticolor ==
    /\ MayCall
    /\ \E t \in { << Pt(0, 0), Pt(0, 1), Pt(1, 0) >> },
       ca \in Colors, cb \in Colors, cc \in Colors :
        Call("tri_multicolor",
             [a |-> <<t[1], ca>>, b |-> <<t[2], cb>>, c |-> <<t[3], cc>>],
             tri_multicolor(DrawData, <<t[1], ca>>, <<t[2], cb>>, <<t[3], cc>>))

Rect ==
    /\ MayCall
    /\ \E color \in { Color(255, 255) }, a \in RectPoints, b \in RectPoints :
        Call("rect", [color |-> color, a |-> a, b |-> b],
             rect(DrawData, color, a, b))

RectUv ==
    /\ MayCall
    /\ \E color \in { Color(65280, 65280) }, a \in { Pt(0, 0), Pt(2, 1) }, b \in { Pt(1, 2) },
       uv_a \in UvPoints, uv_b \in UvPoints :
        Call("rect_uv", [color |-> color, a |-> a, uv_a |-> uv_a, b |-> b, uv_b |-> uv_b],
             rect_uv(DrawData, color, <<a, uv_a>>, <<b, uv_b>>))

Polyline ==
    /\ MayCall
    /\ \E color \in { Color(65280, 65280) }, thickness \in Thicknesses,
       points \in PointLists :
        Call("polyline", [color |-> color, thickness |-> thickness, points |-> points],
             polyline(DrawData, color, thickness, points))

RectPolyline ==
    /\ MayCall
    /\ \E color \in { Color(255, 255) }, thickness \in Thicknesses,
       points \in PointLists :
        Call("rect_polyline", [color |-> color, thickness |-> thickness, points |-> points],
             rect_polyline(DrawData, color, thickness, points))

Next ==
    \/ Extend
    \/ Tri
    \/ TriMulticolor
    \/ Rect
    \/ RectUv
    \/ Polyline
    \/ RectPolyline

Spec == Init /\ [][Next]_vars

(***************************************************************************)
(* The InteractionContext and the frame controller.  The repository has no *)
(* code for them; they are modelled from sections 4.2 and 4.3 of the       *)
(* specification.                                                          *)
(***************************************************************************)
\* an axis-aligned region given by two corners
Region(min, max) == [min |-> min, max |-> max]

\* the hit test with the edges of the region counted in
HitTestInclusive(inp, region) ==
    /\ inp.pointer # None
    /\ ~FLess(inp.pointer[1].x, region.min.x) /\ ~FLess(region.max.x, inp.pointer[1].x)
    /\ ~FLess(inp.pointer[1].y, region.min.y) /\ ~FLess(region.max.y, inp.pointer[1].y)

\* step 1 of query: a pointer is present and lies strictly inside the region
HitTest(inp, region) ==
    /\ inp.pointer # None
    /\ FLess(region.min.x, inp.pointer[1].x) /\ FLess(inp.pointer[1].x, region.max.x)
    /\ FLess(region.min.y, inp.pointer[1].y) /\ FLess(inp.pointer[1].y, region.max.y)

\* the InteractionContext as a value
Context == [held |-> held, hover |-> hover, previous_hover |-> previous_hover]

\* slots in which the first hit of a frame keeps the hover slot
QuerySlotsFirstHover(ctx, inp, id, hit, was_held) ==
    IF hit
    THEN [held |-> IF inp.button = "down" THEN id ELSE 0,
          hover |-> IF ctx.hover = 0 THEN id ELSE ctx.hover]
    ELSE IF was_held
    THEN [held |-> 0, hover |-> ctx.hover]
    ELSE [held |-> ctx.held, hover |-> ctx.hover]

\* steps 3 and 4 of query: the held and hover slots after it
QuerySlots(ctx, inp, id, hit, was_held) ==
    IF hit
    THEN [held |-> IF inp.button = "down" THEN id ELSE 0, hover |-> id]
    ELSE IF was_held
    THEN [held |-> 0, hover |-> ctx.hover]
    ELSE [held |-> ctx.held, hover |-> ctx.hover]

\* an Event whose held is reported only while the pointer hits
QueryEventOnHit(ctx, inp, id, hit, was_held) ==
    [clicked |-> inp.button = "up" /\ was_held /\ hit,
     hovered |-> id = ctx.previous_hover,
     held |-> inp.button = "down" /\ was_held /\ hit]

\* step 5 of query: the Event
QueryEvent(ctx, inp, id, hit, was_held) ==
    [clicked |-> inp.button = "up" /\ was_held /\ hit,
     hovered |-> id = ctx.previous_hover,
     held |-> inp.button = "down" /\ was_held]

\* query with was_held read after the slots are written
QueryHeldAfter(ctx, inp, id, region) ==
    LET hit == HitTest(inp, region)
        slots == QuerySlots(ctx, inp, id, hit, id = ctx.held)
    IN [slots |-> slots,
        event |-> QueryEvent(ctx, inp, id, hit, id = slots.held)]

\* query with hovered read from the hover slot of the frame in progress
QueryHoverNow(ctx, inp, id, region) ==
    LET hit == HitTest(inp, region)
        slots == QuerySlots(ctx, inp, id, hit, id = ctx.held)
    IN [slots |-> slots,
        event |-> [QueryEvent(ctx, inp, id, hit, id = ctx.held)
                       EXCEPT !.hovered = (id = slots.hover)]]

\* query(id, region) on the context ctx under the input inp: the slots after
\* it and the Event; was_held is id == held before anything is written
query(ctx, inp, id, region) ==
    LET hit == HitTest(inp, region)
        was_held == id = ctx.held
    IN [slots |-> QuerySlots(ctx, inp, id, hit, was_held),
        event |-> QueryEvent(ctx, inp, id, hit, was_held)]

\* end_frame(): previous-hover = hover, hover = none
end_frame(ctx) == [ctx EXCEPT !.previous_hover = ctx.hover, !.hover = 0]

\* clearing that forgets the vertices
ClearIndiciesOnly(d) == [d EXCEPT !.indicies = <<>>, !.vlenAtPush = <<>>]

\* begin_frame clears the sequences of the batch
clear(d) == [d EXCEPT !.verts = <<>>, !.indicies = <<>>, !.vlenAtPush = <<>>]

\* the pointer: absent; inside the first region and on a corner of the
\* second; inside both; on the right edge of the first and inside the
\* second; on a corner of the first and inside the second; outside both
Pointers ==
    { None, Some(Pt(1, 1)), Some(Vec2(<<3, 2>>, <<3, 2>>)), Some(Vec2(F(2), <<3, 2>>)),
      Some(Pt(2, 2)), Some(Pt(5, 5)) }
Inputs == { [pointer |-> p, button |-> b] : p \in Pointers, b \in {"up", "down"} }

\* two interactive regions that overlap, with their identifiers, and the
\* first of them moved to where no pointer of Pointers is inside it
Widgets ==
    { [id |-> 1, region |-> Region(Pt(0, 0), Pt(2, 2))],
      [id |-> 2, region |-> Region(Pt(1, 1), Pt(3, 3))],
      [id |-> 1, region |-> Region(Pt(3, 3), Pt(4, 4))] }

\* a frame controller after construction: an empty batch, a context with no
\* identifier in its slots and a first input, ready to build the first frame
InitFrame ==
    /\ InitBatch
    /\ indexBits = IndexBits
    /\ overflow_checks = FALSE
    /\ IdleColor
    /\ phase = "building"
    /\ frame = 1
    /\ input \in Inputs
    /\ dropped = 0
    /\ held = 0
    /\ hover = 0
    /\ previous_hover = 0
    /\ events = <<>>
    /\ NoLib
    /\ NoTexture

\* begin_frame: installs the next input and clears the batch
BeginFrame ==
    /\ phase = "view"
    /\ frame < MaxFrames
    /\ phase' = "building"
    /\ frame' = frame + 1
    /\ \E inp \in Inputs : input' = inp
    /\ dropped' = Len(verts)
    /\ verts' = clear(DrawData).verts
    /\ indicies' = clear(DrawData).indicies
    /\ vlenAtPush' = clear(DrawData).vlenAtPush
    /\ calls' = <<>>
    /\ UNCHANGED <<buildVars, panicked, colorVars, contextVars, libVars, textureVars>>

\* finish_frame: calls end_frame() on the context and yields the view of
\* the batch
FinishFrame ==
    /\ phase = "building"
    /\ phase' = "view"
    /\ held' = end_frame(Context).held
    /\ hover' = end_frame(Context).hover
    /\ previous_hover' = end_frame(Context).previous_hover
    /\ UNCHANGED <<frame, input, dropped, events>>
    /\ UNCHANGED <<batchVars, buildVars, panicked, colorVars, libVars, textureVars>>

\* a query while the frame is built; it is recorded with the frame, the
\* input, the slots before and after it and its Event
Query ==
    /\ phase = "building"
    /\ Len(events) < MaxQueries
    /\ \E w \in Widgets :
        /\ held' = query(Context, input, w.id, w.region).slots.held
        /\ hover' = query(Context, input, w.id, w.region).slots.hover
        /\ events' = Append(events,
               [frame |-> frame, id |-> w.id, region |-> w.region, input |-> input,
                before |-> Context,
                after |-> query(Context, input, w.id, w.region).slots,
                event |-> query(Context, input, w.id, w.region).event])
    /\ UNCHANGED previous_hover
    /\ UNCHANGED <<batchVars, buildVars, panicked, colorVars, frameVars, libVars, textureVars>>

\* frames in which the caller only draws
NextFrame ==
    \/ BeginFrame
    \/ FinishFrame
    \/ Tri

SpecFrame == InitFrame /\ [][NextFrame]_vars

\* frames in which the caller only queries
NextContext ==
    \/ BeginFrame
    \/ FinishFrame
    \/ Query

SpecContext == InitFrame /\ [][NextContext]_vars

(***************************************************************************)
(* Color on its own: a Color is picked, Color::alpha is called on it and   *)
(* it is converted into bytes.                                             *)
(***************************************************************************)
\* the values a byte of the Color takes: all bits clear, the lowest bit, the
\* highest bit, all bits set
SampleBytes == { 0, 1, 128, 255 }
SampleHalves == { 256 * h + l : h \in SampleBytes, l \in SampleBytes }
SampleColors == { Color(hi, lo) : hi \in SampleHalves, lo \in SampleHalves }

InitColor ==
    /\ InitBatch
    /\ indexBits = IndexBits
    /\ overflow_checks = FALSE
    /\ colorValue \in SampleColors
    /\ bytes = <<>>
    /\ alphas = <<>>
    /\ NoFrames
    /\ NoLib
    /\ NoTexture

\* color = color.alpha(a)
ColorAlpha ==
    /\ Len(alphas) < MaxAlphas
    /\ \E a \in SampleBytes :
        /\ colorValue' = alpha(colorValue, a)
        /\ alphas' = Append(alphas, [before |-> colorValue, alpha |-> a])
    /\ bytes' = <<>>
    /\ UNCHANGED <<batchVars, buildVars, panicked, frameVars, contextVars, libVars, textureVars>>

\* let bytes: [u8; 4] = color.into()
ColorIntoBytes ==
    /\ bytes = <<>>
    /\ bytes' = ColorInto(colorValue)
    /\ UNCHANGED <<colorValue, alphas>>
    /\ UNCHANGED <<batchVars, buildVars, panicked, frameVars, contextVars, libVars, textureVars>>

NextColor ==
    \/ ColorAlpha
    \/ ColorIntoBytes

SpecColor == InitColor /\ [][NextColor]_vars

\* the same batch with indices of NarrowBits bits, built with or without
\* overflow checks
InitNarrow ==
    /\ InitBatch
    /\ indexBits = NarrowBits
    /\ overflow_checks \in BOOLEAN
    /\ IdleColor
    /\ NoFrames
    /\ NoLib
    /\ NoTexture

SpecNarrow == InitNarrow /\ [][Next]_vars

\* a batch on which only lines are drawn
NextLines ==
    \/ Polyline
    \/ RectPolyline

SpecLines == Init /\ [][NextLines]_vars

(***************************************************************************)
(* Texture (src/src/text.rs): a grayscale image, its pixels row by row.    *)
(***************************************************************************)
\* Texture::new(width, height): vec![0u8; width * height]
TextureNew(width, height) ==
    [width |-> width, height |-> height, pixels |-> [i \in 1..(width * height) |-> 0]]

\* Texture::dimensions(): (self.width as u32, self.height as u32)
TextureDimensions(t) == << AsU32(t.width), AsU32(t.height) >>

\* y as usize * self.width + x as usize
PixelOffset(t, x, y) == y * t.width + x

\* the slice index is checked against the length of pixels alone
InBounds(t, x, y) == PixelOffset(t, x, y) < Len(t.pixels)

\* Index::index: &self.pixels[y as usize * self.width + x as usize]
TextureIndex(t, x, y) == t.pixels[PixelOffset(t, x, y) + 1]

\* IndexMut::index_mut followed by the assignment of v
TextureIndexMut(t, x, y, v) == [t EXCEPT !.pixels[PixelOffset(t, x, y) + 1] = v]

\* the coordinates of the pixels of t
Coordinates(t) == (0..(t.width - 1)) \X (0..(t.height - 1))

\* a Texture after Texture::new(w, h); no pixel was written
InitTexture ==
    /\ InitBatch
    /\ indexBits = IndexBits
    /\ overflow_checks = FALSE
    /\ IdleColor
    /\ NoFrames
    /\ NoLib
    /\ \E w \in 1..MaxSide, h \in 1..MaxSide :
        /\ texture = TextureNew(w, h)
        /\ cells = [c \in Coordinates(TextureNew(w, h)) |-> 0]
    /\ access = [n |-> 0, kind |-> "new"]

MayAccess == access.n < MaxAccesses /\ ~panicked

\* texture[(x, y)] = v; an index out of the bounds of pixels panics
TextureWrite ==
    /\ MayAccess
    /\ \E x \in 0..MaxSide, y \in 0..MaxSide, v \in { 1, 2 } :
        IF InBounds(texture, x, y)
        THEN /\ texture' = TextureIndexMut(texture, x, y, v)
             /\ cells' = IF <<x, y>> \in Coordinates(texture)
                         THEN [cells EXCEPT ![<<x, y>>] = v] ELSE cells
             /\ access' = [n |-> access.n + 1, kind |-> "write", x |-> x, y |-> y,
                           outcome |-> "done"]
             /\ UNCHANGED panicked
        ELSE /\ panicked' = TRUE
             /\ access' = [n |-> access.n + 1, kind |-> "write", x |-> x, y |-> y,
                           outcome |-> "panic"]
             /\ UNCHANGED <<texture, cells>>
    /\ UNCHANGED <<batchVars, buildVars, colorVars, frameVars, contextVars, libVars>>

\* let v = texture[(x, y)]
TextureRead ==
    /\ MayAccess
    /\ \E x \in 0..MaxSide, y \in 0..MaxSide :
        IF InBounds(texture, x, y)
        THEN /\ access' = [n |-> access.n + 1, kind |-> "read", x |-> x, y |-> y,
                           outcome |-> "done", value |-> TextureIndex(texture, x, y)]
             /\ UNCHANGED panicked
        ELSE /\ panicked' = TRUE
             /\ access' = [n |-> access.n + 1, kind |-> "read", x |-> x, y |-> y,
                           outcome |-> "panic"]
    /\ UNCHANGED <<texture, cells>>
    /\ UNCHANGED <<batchVars, buildVars, colorVars, frameVars, contextVars, libVars>>

\* let (width, height) = texture.dimensions()
TextureSize ==
    /\ MayAccess
    /\ access' = [n |-> access.n + 1, kind |-> "dimensions",
                  value |-> TextureDimensions(texture)]
    /\ UNCHANGED <<texture, cells, panicked>>
    /\ UNCHANGED <<batchVars, buildVars, colorVars, frameVars, contextVars, libVars>>

NextTexture ==
    \/ TextureWrite
    \/ TextureRead
    \/ TextureSize

SpecTexture == InitTexture /\ [][NextTexture]_vars

(***************************************************************************)
(* The DrawData of src/src/lib.rs, with public fields, next to the one of  *)
(* src/src/draw.rs: both are driven by the same calls.                     *)
(***************************************************************************)
\* DrawData::default() of lib.rs
LibDefault == [verts |-> <<>>, indicies |-> <<>>]

LibData == [verts |-> lib_verts, indicies |-> lib_indicies]

\* the texture coordinate [0.0, 0.0] lib.rs writes out where draw.rs has OPAQUE_UV
LibUv == <<F(0), F(0)>>

\* self.verts.extend(vs); self.indicies.extend(is)
LibPush(d, vs, is) == [verts |-> d.verts \o vs, indicies |-> d.indicies \o is]

\* the quad_indicies! macro of lib.rs
LibQuadIndicies(first_index) ==
    << first_index, AddU32(first_index, 1), AddU32(first_index, 2),
       AddU32(first_index, 1), AddU32(first_index, 2), AddU32(first_index, 3) >>

LibExtend(d, vs, is) ==
    LET base_index == AsU32(Len(d.verts))
    IN LibPush(d, vs, [i \in 1..Len(is) |-> AddU32(base_index, is[i])])

LibTri(d, color, a, b, c) ==
    LET base_index == AsU32(Len(d.verts))
        col == ColorInto(color)
    IN LibPush(d, << Vert(Vec2Into(a), LibUv, col),
                     Vert(Vec2Into(b), LibUv, col),
                     Vert(Vec2Into(c), LibUv, col) >>,
               << base_index, AddU32(base_index, 1), AddU32(base_index, 2) >>)

LibTriMulticolor(d, a, b, c) ==
    LET base_index == AsU32(Len(d.verts))
    IN LibPush(d, << Vert(Vec2Into(a[1]), LibUv, ColorInto(a[2])),
                     Vert(Vec2Into(b[1]), LibUv, ColorInto(b[2])),
                     Vert(Vec2Into(c[1]), LibUv, ColorInto(c[2])) >>,
               << base_index, AddU32(base_index, 1), AddU32(base_index, 2) >>)

\* rect of lib.rs with the two mixed corners exchanged
LibRectSwapped(d, color, a, b) ==
    LET base_index == AsU32(Len(d.verts))
        col == ColorInto(color)
    IN LibPush(d, << Vert(<<a.x, a.y>>, LibUv, col),
                     Vert(<<b.x, a.y>>, LibUv, col),
                     Vert(<<a.x, b.y>>, LibUv, col),
                     Vert(<<b.x, b.y>>, LibUv, col) >>,
               LibQuadIndicies(base_index))

LibRect(d, color, a, b) ==
    LET base_index == AsU32(Len(d.verts))
        col == ColorInto(color)
    IN LibPush(d, << Vert(<<a.x, a.y>>, LibUv, col),
                     Vert(<<a.x, b.y>>, LibUv, col),
                     Vert(<<b.x, a.y>>, LibUv, col),
                     Vert(<<b.x, b.y>>, LibUv, col) >>,
               LibQuadIndicies(base_index))

\* ca = <<a, uv_a>>, cb = <<b, uv_b>>
LibRectUv(d, color, ca, cb) ==
    LET a == ca[1]
        uv_a == ca[2]
        b == cb[1]
        uv_b == cb[2]
        base_index == AsU32(Len(d.verts))
        col == ColorInto(color)
    IN LibPush(d, << Vert(<<a.x, a.y>>, <<uv_a.x, uv_a.y>>, col),
                     Vert(<<a.x, b.y>>, <<uv_a.x, uv_b.y>>, col),
                     Vert(<<b.x, a.y>>, <<uv_b.x, uv_a.y>>, col),
                     Vert(<<b.x, b.y>>, <<uv_b.x, uv_b.y>>, col) >>,
               LibQuadIndicies(base_index))

\* (p.into(), [0.0, 0.0], color).into()
LibVertAt(p, col) == Vert(Vec2Into(p), LibUv, col)

\* first_index is read, the vertices vs are pushed, then quad_indicies![first_index]
LibPushQuad(d, vs) == LibPush(d, vs, LibQuadIndicies(AsU32(Len(d.verts))))

\* the loop of polyline of lib.rs over the interior points, i1 from 0
RECURSIVE LibPolylineJoins(_, _, _, _, _)
LibPolylineJoins(d, col, thickness, points, i1) ==
    IF i1 >= Len(points) - 1 THEN d
    ELSE LET p1 == points[i1 + 1]
             o == MiterOffset(Miter(points[i1], p1, points[i1 + 2]),
                              SegmentNormal(points[i1], p1), thickness)
         IN LibPolylineJoins(
                LibPushQuad(d, << LibVertAt(Vec2Sub(p1, o), col),
                                  LibVertAt(Vec2Add(p1, o), col) >>),
                col, thickness, points, i1 + 1)

LibPolyline(d, color, thickness, points) ==
    IF Len(points) < 2 THEN d
    ELSE LET col == ColorInto(color)
             half == FMul(thickness, Half)
             last == Len(points)
             nf == Vec2Mul(SegmentNormal(points[2], points[1]), half)
             nl == Vec2Mul(SegmentNormal(points[last - 1], points[last]), half)
             first == LibPushQuad(d, << LibVertAt(Vec2Add(points[1], nf), col),
                                        LibVertAt(Vec2Sub(points[1], nf), col) >>)
         IN LibPush(LibPolylineJoins(first, col, half, points, 1),
                    << LibVertAt(Vec2Sub(points[last], nl), col),
                       LibVertAt(Vec2Add(points[last], nl), col) >>,
                    <<>>)

\* the rectangle of rect_polyline of lib.rs from p to q, offset by o
LibRectSegment(d, col, p, q, o) ==
    LibPushQuad(d, << LibVertAt(Vec2Sub(p, o), col), LibVertAt(Vec2Add(p, o), col),
                      LibVertAt(Vec2Sub(q, o), col), LibVertAt(Vec2Add(q, o), col) >>)

\* the loop of rect_polyline of lib.rs over the segments after the first
RECURSIVE LibRectPolylineSegments(_, _, _, _, _)
LibRectPolylineSegments(d, col, thickness, points, i1) ==
    IF i1 >= Len(points) - 1 THEN d
    ELSE LibRectPolylineSegments(
             LibRectSegment(d, col, points[i1 + 1], points[i1 + 2],
                 Vec2Mul(SegmentNormal(points[i1 + 1], points[i1 + 2]), thickness)),
             col, thickness, points, i1 + 1)

LibRectPolyline(d, color, thickness, points) ==
    IF Len(points) < 2 THEN d
    ELSE LET col == ColorInto(color)
             half == FMul(thickness, Half)
         IN LibRectPolylineSegments(
                LibRectSegment(d, col, points[1], points[2],
                    Vec2Mul(SegmentNormal(points[2], points[1]), half)),
                col, half, points, 1)

\* the operation op of lib.rs with the arguments a on its DrawData d
LibApply(d, op, a) ==
    CASE op = "extend" -> LibExtend(d, a.verts, a.indicies)
      [] op = "tri" -> LibTri(d, a.color, a.a, a.b, a.c)
      [] op = "tri_multicolor" -> LibTriMulticolor(d, a.a, a.b, a.c)
      [] op = "rect" -> LibRect(d, a.color, a.a, a.b)
      [] op = "rect_uv" -> LibRectUv(d, a.color, <<a.a, a.uv_a>>, <<a.b, a.uv_b>>)
      [] op = "polyline" -> LibPolyline(d, a.color, a.thickness, a.points)
      [] op = "rect_polyline" -> LibRectPolyline(d, a.color, a.thickness, a.points)

\* verts() of draw.rs returning the vertices but the last
DrawDataVertsShort(d) == SubSeq(d.verts, 1, Len(d.verts) - 1)

\* DrawData::verts(&self) of draw.rs: self.verts.as_slice()
DrawDataVerts(d) == d.verts

\* DrawData::indicies(&self) of draw.rs: self.indicies.as_slice()
DrawDataIndicies(d) == d.indicies

\* the calls both are driven by
PairLines ==
    { pts \in PointLists :
        Len(pts) >= 2 => pts[2] \in { Pt(2, 1), Pt(1, 0) } }
PairCalls ==
    { [op |-> "extend", args |-> [verts |-> vs, indicies |-> is]] :
        vs \in ExtendVerts, is \in { <<>>, <<1, 0>> } }
    \cup { [op |-> "tri", args |-> [color |-> Color(255, 255), a |-> t[1], b |-> t[2], c |-> t[3]]] :
        t \in { << Pt(0, 0), Pt(0, 1), Pt(1, 0) >>, << Pt(1, 0), Pt(0, 1), Pt(0, 0) >> } }
    \cup { [op |-> "tri_multicolor",
            args |-> [a |-> <<Pt(0, 0), ca>>, b |-> <<Pt(0, 1), Color(255, 255)>>,
                      c |-> <<Pt(1, 0), Color(65280, 65280)>>]] : ca \in Colors }
    \cup { [op |-> "rect", args |-> [color |-> Color(255, 255), a |-> a, b |-> Pt(1, 2)]] :
        a \in RectPoints }
    \cup { [op |-> "rect_uv",
            args |-> [color |-> Color(65280, 65280), a |-> Pt(2, 1), uv_a |-> uv_a,
                      b |-> Pt(1, 2), uv_b |-> Vec2(F(1), F(0))]] : uv_a \in UvPoints }
    \cup { [op |-> op, args |-> [color |-> Color(65280, 65280), thickness |-> F(2), points |-> pts]] :
        op \in { "polyline", "rect_polyline" }, pts \in PairLines }

\* two DrawData after construction, one of each file
InitPair ==
    /\ InitBatch
    /\ indexBits = IndexBits
    /\ overflow_checks = FALSE
    /\ IdleColor
    /\ NoFrames
    /\ lib_verts = LibDefault.verts
    /\ lib_indicies = LibDefault.indicies
    /\ view = None
    /\ NoTexture

\* the same operation with the same arguments on both
PairCall(op) ==
    /\ MayCall
    /\ \E c \in PairCalls :
        /\ c.op = op
        /\ CallDraw(op, c.args, Apply(DrawData, op, c.args))
        /\ lib_verts' = LibApply(LibData, op, c.args).verts
        /\ lib_indicies' = LibApply(LibData, op, c.args).indicies
    /\ view' = None

PairExtend == PairCall("extend")
PairTri == PairCall("tri")
PairTriMulticolor == PairCall("tri_multicolor")
PairRect == PairCall("rect")
PairRectUv == PairCall("rect_uv")
PairPolyline == PairCall("polyline")
PairRectPolyline == PairCall("rect_polyline")

\* verts() and indicies() are called on the DrawData of draw.rs
ReadBack ==
    /\ view = None
    /\ view' = Some([verts |-> DrawDataVerts(DrawData),
                     indicies |-> DrawDataIndicies(DrawData)])
    /\ UNCHANGED <<lib_verts, lib_indicies>>
    /\ UNCHANGED <<batchVars, buildVars, panicked, colorVars, frameVars, contextVars, textureVars>>

NextPair ==
    \/ PairExtend
    \/ PairTri
    \/ PairTriMulticolor
    \/ PairRect
    \/ PairRectUv
    \/ PairPolyline
    \/ PairRectPolyline
    \/ ReadBack

SpecPair == InitPair /\ [][NextPair]_vars

(***************************************************************************)
(* What the properties below read off the state.                           *)
(***************************************************************************)
Primitives == { "tri", "tri_multicolor", "rect", "rect_uv", "polyline", "rect_polyline" }

Last == calls[Len(calls)]
Called(op) == Len(calls) > 0 /\ Last.op = op

\* what the last call appended
NewVerts == SubSeq(verts, Last.k + 1, Len(verts))
NewIndicies == SubSeq(indicies, Last.m + 1, Len(indicies))
NewPositions == [i \in 1..Len(NewVerts) |-> NewVerts[i].pos]

\* the batch the last call found
Before ==
    [verts |-> SubSeq(verts, 1, Last.k), indicies |-> SubSeq(indicies, 1, Last.m),
     vlenAtPush |-> SubSeq(vlenAtPush, 1, Last.m)]

\* the call that appended the i-th index
CallOfIndex(i) ==
    CHOOSE c \in 1..Len(calls) :
        calls[c].m < i /\ (c = Len(calls) \/ i <= calls[c + 1].m)

\* the number of vertices when call c returned
VertsAfter(c) == IF c < Len(calls) THEN calls[c + 1].k ELSE Len(verts)

IsPrefix(s, t) == Len(s) <= Len(t) /\ SubSeq(t, 1, Len(s)) = s

(***************************************************************************)
(* C1 as stated: every index a primitive appends is strictly less than     *)
(* the number of vertices at the moment it is appended.  polyline breaks   *)
(* it: the indices of a segment are pushed before the vertices of the      *)
(* segment's second point.                                                 *)
(***************************************************************************)
C1_IndexBelowCountAtPush ==
    \A i \in 1..Len(indicies) :
        calls[CallOfIndex(i)].op \in Primitives => indicies[i] < vlenAtPush[i]

(***************************************************************************)
(* C1 amended: every index appended by tri, tri_multicolor, rect, rect_uv  *)
(* and rect_polyline is strictly less than the number of vertices at the   *)
(* moment it is appended; an index appended by polyline is less than that  *)
(* number plus 2, and strictly less than the number of vertices when       *)
(* polyline returns.                                                       *)
(***************************************************************************)
C1_IndexBelowCountAtReturn ==
    \A i \in 1..Len(indicies) :
        LET c == CallOfIndex(i)
        IN /\ calls[c].op \in Primitives \ {"polyline"} => indicies[i] < vlenAtPush[i]
           /\ calls[c].op = "polyline" =>
                 /\ indicies[i] < vlenAtPush[i] + 2
                 /\ indicies[i] < VertsAfter(c)

\* a polyline over three points has pushed indices of vertices not there yet
C1_Witness ==
    /\ Called("polyline")
    /\ Len(Last.args.points) = 3
    /\ \E i \in 1..Len(indicies) : i > Last.m /\ indicies[i] >= vlenAtPush[i]

(***************************************************************************)
(* C2: after any sequence of calls of the six primitives on an empty       *)
(* batch, the number of indices is a multiple of 3.                        *)
(***************************************************************************)
C2_CompleteTriangles ==
    (\A c \in 1..Len(calls) : calls[c].op \in Primitives) => Len(indicies) % 3 = 0

\* a line through three points, then a line through fewer than two
C2_Witness ==
    /\ Len(calls) = 2
    /\ calls[1].op = "polyline" /\ Len(calls[1].args.points) = 3
    /\ calls[2].op = "rect_polyline" /\ Len(calls[2].args.points) < 2
    /\ Len(indicies) > 0

(***************************************************************************)
(* C3: every operation is append-only: the vertices and the indices before *)
(* a call are a prefix of the vertices and the indices after it.           *)
(***************************************************************************)
C3_AppendOnly ==
    [][IsPrefix(verts, verts') /\ IsPrefix(indicies, indicies')]_vars

\* a call has appended vertices and indices to a batch that held some
C3_Witness ==
    /\ Len(calls) >= 2
    /\ Last.k > 0 /\ Last.m > 0
    /\ Len(verts) > Last.k /\ Len(indicies) > Last.m

(***************************************************************************)
(* C4: extend(verts, idxs) on a batch of k vertices appends the vertices   *)
(* as they are and in order, and Len(idxs) indices, the i-th of which is   *)
(* idxs[i] + k.                                                            *)
(***************************************************************************)
C4_ExtendRelative ==
    Called("extend") =>
        /\ NewVerts = Last.args.verts
        /\ Len(NewIndicies) = Len(Last.args.indicies)
        /\ \A i \in 1..Len(NewIndicies) :
               NewIndicies[i] = Last.args.indicies[i] + Last.k

\* extend has appended vertices and indices to a batch that held vertices
C4_Witness ==
    /\ Called("extend")
    /\ Last.k > 0
    /\ Len(Last.args.verts) = 2
    /\ Len(Last.args.indicies) > 0

(***************************************************************************)
(* C5: building shapes with extend, each time from the vertices a          *)
(* primitive produces and its indices relative to 0, leaves the batch with *)
(* the vertices and indices the primitive calls themselves leave, from     *)
(* every batch the calls started on.                                       *)
(***************************************************************************)
\* the shape of call c: what it appends to an empty batch
Shape(c) == calls[c].shape

\* the calls from c on, each made as extend(its shape), on the batch d
RECURSIVE ViaExtend(_, _)
ViaExtend(d, c) ==
    IF c > Len(calls) THEN d
    ELSE ViaExtend(extend(d, Shape(c).verts, Shape(c).indicies), c + 1)

\* the batch call c found
BatchBefore(c) ==
    [verts |-> SubSeq(verts, 1, calls[c].k),
     indicies |-> SubSeq(indicies, 1, calls[c].m),
     vlenAtPush |-> SubSeq(vlenAtPush, 1, calls[c].m)]

C5_ExtendRoundTrip ==
    \A c \in 1..Len(calls) :
        LET built == ViaExtend(BatchBefore(c), c)
        IN built.verts = verts /\ built.indicies = indicies

\* two primitives in sequence, the second on a batch that holds vertices
C5_Witness ==
    /\ Len(calls) >= 2
    /\ calls[Len(calls) - 1].op \in Primitives
    /\ Last.op \in Primitives
    /\ Last.k > 0
    /\ Len(indicies) > Last.m

(***************************************************************************)
(* C6: tri(color, a, b, c) on a batch of k vertices appends 3 vertices at  *)
(* a, b, c in that order, of the given color and the opaque texture        *)
(* coordinate, and the indices k, k+1, k+2; on an empty batch              *)
(* tri(color, (0,0), (0,1), (1,0)) gives the positions (0,0), (0,1), (1,0) *)
(* and the indices 0, 1, 2.                                                *)
(***************************************************************************)
\* the bytes of the two colors, as test_color_u8_conversion gives them
BytesOf(color) ==
    IF color = Color(65280, 65280) THEN <<255, 0, 255, 0>> ELSE <<0, 255, 0, 255>>

C6_TriAppends ==
    /\ Called("tri") =>
          /\ Len(NewVerts) = 3
          /\ NewPositions = << <<Last.args.a.x, Last.args.a.y>>,
                               <<Last.args.b.x, Last.args.b.y>>,
                               <<Last.args.c.x, Last.args.c.y>> >>
          /\ \A i \in 1..3 : /\ NewVerts[i].color = BytesOf(Last.args.color)
                             /\ NewVerts[i].uv = <<PosZero, PosZero>>
          /\ NewIndicies = <<Last.k, Last.k + 1, Last.k + 2>>
    /\ ( /\ Len(calls) = 1
         /\ Called("tri")
         /\ <<Last.args.a, Last.args.b, Last.args.c>> = <<Pt(0, 0), Pt(0, 1), Pt(1, 0)>> ) =>
          /\ [i \in 1..Len(verts) |-> verts[i].pos] =
                << <<F(0), F(0)>>, <<F(0), F(1)>>, <<F(1), F(0)>> >>
          /\ indicies = <<0, 1, 2>>

\* a triangle has been appended to a batch that held vertices
C6_Witness ==
    /\ Called("tri")
    /\ Last.k > 0
    /\ <<Last.args.a, Last.args.b, Last.args.c>> = <<Pt(0, 0), Pt(0, 1), Pt(1, 0)>>

(***************************************************************************)
(* C7: rect(color, a, b) on a batch of k vertices appends 4 vertices at    *)
(* (a.x,a.y), (a.x,b.y), (b.x,a.y), (b.x,b.y) in that order and the 6      *)
(* indices k, k+1, k+2, k+1, k+2, k+3.                                     *)
(***************************************************************************)
C7_RectAppends ==
    Called("rect") =>
        /\ NewPositions = << <<Last.args.a.x, Last.args.a.y>>,
                             <<Last.args.a.x, Last.args.b.y>>,
                             <<Last.args.b.x, Last.args.a.y>>,
                             <<Last.args.b.x, Last.args.b.y>> >>
        /\ NewIndicies = << Last.k, Last.k + 1, Last.k + 2,
                            Last.k + 1, Last.k + 2, Last.k + 3 >>

\* a rectangle has been appended to a batch that held vertices
C7_Witness ==
    /\ Called("rect")
    /\ Last.k > 0
    /\ Last.args.a = Pt(1, 2) /\ Last.args.b = Pt(2, 1)

(***************************************************************************)
(* C8: for corners a, b in any relative order rect(color, a, b) appends 4  *)
(* vertices and 6 indices, the indices name exactly 4 distinct slots, the  *)
(* set of positions is the corner set of the box from the smaller to the   *)
(* larger coordinate on each axis, the two triangles cover that box, and   *)
(* rect(color, b, a) gives the same set of positions.                      *)
(***************************************************************************)
FMin(a, b) == IF FLess(b, a) THEN b ELSE a
FAbs(a) == IF Sign(a) < 0 THEN FNeg(a) ELSE a
FSame(a, b) == ~FLess(a, b) /\ ~FLess(b, a)

\* twice the signed area of the triangle o, p, q of positions
Cross(o, p, q) ==
    FSub(FMul(FSub(p[1], o[1]), FSub(q[2], o[2])),
         FMul(FSub(p[2], o[2]), FSub(q[1], o[1])))

PositionSet(vs) == { vs[i].pos : i \in 1..Len(vs) }

BoxCorners(a, b) ==
    { <<x, y>> : x \in {FMin(a.x, b.x), FMax(a.x, b.x)},
                 y \in {FMin(a.y, b.y), FMax(a.y, b.y)} }

\* the position the j-th new index names
Corner(j) == verts[NewIndicies[j] + 1].pos

\* the triangles of the indices j..j+2 and j+3..j+5 meet in an edge, lie on
\* opposite sides of it and have the area of the box between them
CoversBox(a, b) ==
    /\ Corner(2) = Corner(4) /\ Corner(3) = Corner(5)
    /\ ~FLess(F(0), FMul(Cross(Corner(2), Corner(3), Corner(1)),
                         Cross(Corner(2), Corner(3), Corner(6))))
    /\ FSame(FAdd(FAbs(Cross(Corner(1), Corner(2), Corner(3))),
                  FAbs(Cross(Corner(4), Corner(5), Corner(6)))),
             FMul(F(2), FMul(FSub(FMax(a.x, b.x), FMin(a.x, b.x)),
                             FSub(FMax(a.y, b.y), FMin(a.y, b.y)))))

C8_RectAnyOrder ==
    Called("rect") =>
        /\ Len(NewVerts) = 4
        /\ Len(NewIndicies) = 6
        /\ { NewIndicies[j] : j \in 1..Len(NewIndicies) } = Last.k .. Last.k + 3
        /\ PositionSet(NewVerts) = BoxCorners(Last.args.a, Last.args.b)
        /\ CoversBox(Last.args.a, Last.args.b)
        /\ PositionSet(NewVerts) =
              PositionSet(SubSeq(rect(Before, Last.args.color, Last.args.b, Last.args.a).verts,
                                 Last.k + 1, Last.k + 4))

\* a rectangle whose first corner is the larger one on one axis and the
\* smaller one on the other
C8_Witness ==
    /\ Called("rect")
    /\ FLess(Last.args.b.x, Last.args.a.x)
    /\ FLess(Last.args.a.y, Last.args.b.y)
    /\ Last.k > 0

(***************************************************************************)
(* C9: rect_uv(color, (a, uv_a), (b, uv_b)) appends the positions and the  *)
(* index pattern of rect(color, a, b), and the vertex at (a.x,a.y) carries *)
(* (uv_a.x,uv_a.y), the one at (a.x,b.y) (uv_a.x,uv_b.y), the one at       *)
(* (b.x,a.y) (uv_b.x,uv_a.y) and the one at (b.x,b.y) (uv_b.x,uv_b.y).     *)
(***************************************************************************)
\* what rect(color, a, b) appends to the batch the last call found
RectOfLast == rect(Before, Last.args.color, Last.args.a, Last.args.b)

C9_RectUvAppends ==
    Called("rect_uv") =>
        /\ NewPositions =
              [i \in 1..4 |-> RectOfLast.verts[Last.k + i].pos]
        /\ NewIndicies = SubSeq(RectOfLast.indicies, Last.m + 1, Last.m + 6)
        /\ [i \in 1..Len(NewVerts) |-> <<NewVerts[i].pos, NewVerts[i].uv>>] =
              << << <<Last.args.a.x, Last.args.a.y>>, <<Last.args.uv_a.x, Last.args.uv_a.y>> >>,
                 << <<Last.args.a.x, Last.args.b.y>>, <<Last.args.uv_a.x, Last.args.uv_b.y>> >>,
                 << <<Last.args.b.x, Last.args.a.y>>, <<Last.args.uv_b.x, Last.args.uv_a.y>> >>,
                 << <<Last.args.b.x, Last.args.b.y>>, <<Last.args.uv_b.x, Last.args.uv_b.y>> >> >>

\* a textured rectangle whose two texture corners differ on both axes
C9_Witness ==
    /\ Called("rect_uv")
    /\ Last.k > 0
    /\ Last.args.uv_a.x # Last.args.uv_b.x
    /\ Last.args.uv_a.y # Last.args.uv_b.y
    /\ Last.args.uv_a.x # Last.args.uv_a.y

(***************************************************************************)
(* C10: polyline on a list of N >= 2 points appends 2N vertices and        *)
(* 6(N - 1) indices, whatever the batch held.                              *)
(***************************************************************************)
C10_PolylineCounts ==
    (Called("polyline") /\ Len(Last.args.points) >= 2) =>
        /\ Len(verts) = Last.k + 2 * Len(Last.args.points)
        /\ Len(indicies) = Last.m + 6 * (Len(Last.args.points) - 1)

\* a line of three points appended to a batch that held vertices and indices
C10_Witness ==
    /\ Called("polyline")
    /\ Len(Last.args.points) = 3
    /\ Last.k > 0
    /\ Last.m > 0

(***************************************************************************)
(* C11: rect_polyline on a list of N >= 2 points appends 4(N - 1) vertices *)
(* and 6(N - 1) indices, a rectangle of 4 vertices and 6 indices for each  *)
(* of the N - 1 segments, whatever the batch held.                         *)
(***************************************************************************)
C11_RectPolylineCounts ==
    (Called("rect_polyline") /\ Len(Last.args.points) >= 2) =>
        /\ Len(verts) = Last.k + 4 * (Len(Last.args.points) - 1)
        /\ Len(indicies) = Last.m + 6 * (Len(Last.args.points) - 1)
        /\ \A sg \in 1..(Len(Last.args.points) - 1) :
               \A j \in 1..6 :
                   NewIndicies[6 * (sg - 1) + j] \in
                       (Last.k + 4 * (sg - 1)) .. (Last.k + 4 * (sg - 1) + 3)

\* two segments drawn as rectangles on a batch that held vertices and indices
C11_Witness ==
    /\ Called("rect_polyline")
    /\ Len(Last.args.points) = 3
    /\ Last.k > 0
    /\ Last.m > 0

(***************************************************************************)
(* C12: polyline and rect_polyline on a list of 0 or 1 points leave the    *)
(* vertices and the indices as they were and do not panic, whatever the    *)
(* batch held.                                                             *)
(***************************************************************************)
C12_ShortListNoOp ==
    ( /\ Len(calls) > 0
      /\ Last.op \in {"polyline", "rect_polyline"}
      /\ Len(Last.args.points) < 2 ) =>
        /\ verts = Before.verts
        /\ indicies = Before.indicies
        /\ Len(verts) = Last.k
        /\ Len(indicies) = Last.m
        /\ ~panicked

\* a list of one point handed to rect_polyline on a batch that holds vertices
\* and indices
C12_Witness ==
    /\ Called("rect_polyline")
    /\ Len(Last.args.points) = 1
    /\ Len(verts) > 0
    /\ Len(indicies) > 0

(***************************************************************************)
(* C14: operations append in call order: the vertices an operation appends *)
(* are one block of the vertex sequence and its indices one block of the   *)
(* index sequence, and the blocks of an earlier operation lie before the   *)
(* blocks of a later one.                                                  *)
(***************************************************************************)
\* where the blocks of call c end: where the next call's begin
VertsEnd(c) == IF c = Len(calls) THEN Len(verts) ELSE calls[c + 1].k
IndiciesEnd(c) == IF c = Len(calls) THEN Len(indicies) ELSE calls[c + 1].m

C14_CallOrder ==
    \A c \in 1..Len(calls) :
        /\ calls[c].k <= VertsEnd(c)
        /\ calls[c].m <= IndiciesEnd(c)
        /\ SubSeq(verts, calls[c].k + 1, VertsEnd(c)) = calls[c].shape.verts
        /\ Len(calls[c].shape.indicies) = IndiciesEnd(c) - calls[c].m
        /\ \A j \in 1..Len(calls[c].shape.indicies) :
               indicies[calls[c].m + j] = calls[c].k + calls[c].shape.indicies[j]
        /\ c = 1 => calls[c].k = 0 /\ calls[c].m = 0

\* two operations, each of which appended vertices and indices
C14_Witness ==
    /\ Len(calls) = 2
    /\ calls[1].op # calls[2].op
    /\ 0 < calls[2].k /\ calls[2].k < Len(verts)
    /\ 0 < calls[2].m /\ calls[2].m < Len(indicies)

(***************************************************************************)
(* C13: an operation that needs an index that does not fit in the width of *)
(* an index fails fatally, and no index in the batch is the value modulo   *)
(* 2^w of the position of the vertex it was meant for.  The code breaks    *)
(* it: verts.len() as u32 drops the high bits in every build, and the      *)
(* additions wrap in a build without overflow checks.                      *)
(***************************************************************************)
\* the position of the vertex the j-th index of call c is meant for
Intended(c, j) == calls[c].k + calls[c].shape.indicies[j]

\* call c needs an index that does not fit
NeedsWideIndex(c) ==
    \E j \in 1..Len(calls[c].shape.indicies) : Intended(c, j) >= U32Modulus

\* call c panicked
Failed(c) == panicked /\ c = Len(calls)

C13_OverflowIsFatal ==
    \A c \in 1..Len(calls) :
        /\ NeedsWideIndex(c) => Failed(c)
        /\ ~Failed(c) =>
              \A j \in 1..Len(calls[c].shape.indicies) :
                  indicies[calls[c].m + j] = Intended(c, j)

(***************************************************************************)
(* C15: a Color holding 0xRRGGBBAA converts into the bytes RR, GG, BB, AA, *)
(* the most significant first: 0xFF00FF00 into 255, 0, 255, 0 and          *)
(* 0x00FF00FF into 0, 255, 0, 255, and the four bytes put together again   *)
(* give the value.                                                         *)
(***************************************************************************)
C15_ColorBytes ==
    bytes # <<>> =>
        /\ Len(bytes) = 4
        /\ \A i \in 1..4 : bytes[i] \in 0..255
        /\ bytes[1] * 256 + bytes[2] = colorValue.hi
        /\ bytes[3] * 256 + bytes[4] = colorValue.lo
        /\ colorValue = Color(65280, 65280) => bytes = <<255, 0, 255, 0>>
        /\ colorValue = Color(255, 255) => bytes = <<0, 255, 0, 255>>

\* 0xFF00FF00 has been converted
C15_Witness ==
    /\ colorValue = Color(65280, 65280)
    /\ bytes # <<>>

(***************************************************************************)
(* C16: alpha(x) gives a color whose alpha byte is x and whose red, green  *)
(* and blue bytes are those of the color it was called on; 0xFFFFFFFF with *)
(* alpha(0) converts into 255, 255, 255, 0; alpha(x) then alpha(y) gives   *)
(* what alpha(y) alone gives.                                              *)
(***************************************************************************)
LastAlpha == alphas[Len(alphas)]

C16_AlphaSetsLowByte ==
    Len(alphas) > 0 =>
        /\ colorValue.lo % 256 = LastAlpha.alpha
        /\ colorValue.lo \div 256 = LastAlpha.before.lo \div 256
        /\ colorValue.hi = LastAlpha.before.hi
        /\ bytes # <<>> =>
              bytes = << LastAlpha.before.hi \div 256, LastAlpha.before.hi % 256,
                         LastAlpha.before.lo \div 256, LastAlpha.alpha >>
        /\ (LastAlpha.before = Color(65535, 65535) /\ LastAlpha.alpha = 0 /\ bytes # <<>>) =>
              bytes = <<255, 255, 255, 0>>
        /\ Len(alphas) >= 2 =>
              colorValue = alpha(alphas[Len(alphas) - 1].before, LastAlpha.alpha)

\* alpha(255) then alpha(128) on a color, converted into bytes
C16_Witness ==
    /\ Len(alphas) = 2
    /\ alphas[1].alpha = 255
    /\ alphas[2].alpha = 128
    /\ alphas[1].before.lo % 256 = 1
    /\ bytes # <<>>

(***************************************************************************)
(* C17: a frame starts from an empty batch: a batch just created has no    *)
(* vertices and no indices, and begin_frame clears both sequences, so the  *)
(* batch holds what the calls of the frame in progress appended and        *)
(* nothing of the frame before.                                            *)
(***************************************************************************)
\* the number of vertices and of indices the calls c.. of this frame produce
RECURSIVE VertsOfCalls(_)
VertsOfCalls(c) ==
    IF c > Len(calls) THEN 0 ELSE Len(calls[c].shape.verts) + VertsOfCalls(c + 1)

RECURSIVE IndiciesOfCalls(_)
IndiciesOfCalls(c) ==
    IF c > Len(calls) THEN 0 ELSE Len(calls[c].shape.indicies) + IndiciesOfCalls(c + 1)

C17_FrameStartsEmpty ==
    /\ Len(verts) = VertsOfCalls(1)
    /\ Len(indicies) = IndiciesOfCalls(1)
    /\ Len(calls) = 0 => verts = <<>> /\ indicies = <<>>

\* begin_frame has cleared a batch that held vertices, and the new frame
\* has drawn a triangle
C17_Witness ==
    /\ frame = 2
    /\ dropped > 0
    /\ Len(calls) = 1
    /\ Len(verts) = 3

(***************************************************************************)
(* C18: query hits exactly when a pointer is present and lies strictly     *)
(* inside the region on both axes; with the pointer on an edge or absent   *)
(* the query does not hit: it leaves hover as it was, takes held from no   *)
(* identifier but its own, and reports no click.                           *)
(***************************************************************************)
\* region.min.x < x < region.max.x and region.min.y < y < region.max.y
StrictlyInside(inp, region) ==
    /\ inp.pointer # None
    /\ FLess(region.min.x, inp.pointer[1].x)
    /\ FLess(inp.pointer[1].x, region.max.x)
    /\ FLess(region.min.y, inp.pointer[1].y)
    /\ FLess(inp.pointer[1].y, region.max.y)

\* the pointer is on the boundary of the region
OnEdge(inp, region) ==
    /\ inp.pointer # None
    /\ ~StrictlyInside(inp, region)
    /\ ~FLess(inp.pointer[1].x, region.min.x) /\ ~FLess(region.max.x, inp.pointer[1].x)
    /\ ~FLess(inp.pointer[1].y, region.min.y) /\ ~FLess(region.max.y, inp.pointer[1].y)

C18_HitIsStrictlyInside ==
    \A i \in 1..Len(events) :
        LET e == events[i]
        IN IF StrictlyInside(e.input, e.region)
           THEN /\ e.after.hover = e.id
                /\ e.after.held = IF e.input.button = "down" THEN e.id ELSE 0
           ELSE /\ e.after.hover = e.before.hover
                /\ e.after.held = IF e.before.held = e.id THEN 0 ELSE e.before.held
                /\ ~e.event.clicked

\* a query with the pointer on an edge of its region, while the other
\* identifier is in the hover slot and the button is down
C18_Witness ==
    \E i \in 1..Len(events) :
        /\ OnEdge(events[i].input, events[i].region)
        /\ events[i].input.pointer = Some(Vec2(F(2), <<3, 2>>))
        /\ events[i].input.button = "down"
        /\ events[i].before.hover # 0
        /\ events[i].before.hover # events[i].id

(***************************************************************************)
(* C19: a query for X reports clicked exactly when the button is up, X was *)
(* held on entry and the pointer hits.  With the pointer inside and the    *)
(* button down in frame 1, and the pointer inside and the button up in     *)
(* frame 2, the query for X of frame 1 reports no click, that of frame 2 a *)
(* click, and further queries for X without a new press report no click.   *)
(***************************************************************************)
\* the first two queries are the scenario's: for the same identifier, in
\* frames 1 and 2, pointer inside, button down then up
PressThenRelease ==
    /\ Len(events) >= 2
    /\ events[1].id = events[2].id
    /\ events[1].frame = 1 /\ events[2].frame = 2
    /\ StrictlyInside(events[1].input, events[1].region)
    /\ StrictlyInside(events[2].input, events[2].region)
    /\ events[1].input.button = "down"
    /\ events[2].input.button = "up"

C19_ClickOnRelease ==
    /\ \A i \in 1..Len(events) :
           events[i].event.clicked <=>
               /\ events[i].input.button = "up"
               /\ events[i].before.held = events[i].id
               /\ StrictlyInside(events[i].input, events[i].region)
    /\ PressThenRelease =>
           /\ ~events[1].event.clicked
           /\ events[2].event.clicked
           /\ \A i \in 3..Len(events) :
                  ( /\ events[i].id = events[1].id
                    /\ \A j \in 3..i : events[j].input.button = "up" ) =>
                      ~events[i].event.clicked

\* the scenario, followed by a third query for the same identifier
C19_Witness ==
    /\ PressThenRelease
    /\ Len(events) = 3
    /\ events[3].id = events[1].id
    /\ StrictlyInside(events[3].input, events[3].region)

(***************************************************************************)
(* C20: end_frame sets previous-hover to hover as it is then and resets    *)
(* hover to none; every query of the next frame reports hovered exactly    *)
(* for the identifier that was in hover then, whatever hits rewrite hover  *)
(* earlier in the frame; previous-hover is always the hover value of the   *)
(* last end_frame.                                                         *)
(***************************************************************************)
\* the identifier of the last query among the first n that hit in frame f,
\* none if no query hit: the hover slot at the end of frame f
RECURSIVE LastHit(_, _)
LastHit(f, n) ==
    IF n = 0 THEN 0
    ELSE IF events[n].frame = f /\ StrictlyInside(events[n].input, events[n].region)
    THEN events[n].id
    ELSE LastHit(f, n - 1)

\* the last frame that ended, 0 if none did
EndedFrame == IF phase = "view" THEN frame ELSE frame - 1

C20_HoverRotation ==
    /\ previous_hover = LastHit(EndedFrame, Len(events))
    /\ phase = "view" => hover = 0
    /\ \A i \in 1..Len(events) :
           events[i].event.hovered <=>
               events[i].id = LastHit(events[i].frame - 1, Len(events))

\* a query reports hovered for the identifier hovered at the end of frame 1
\* after a query of frame 2 has put the other identifier into hover
C20_Witness ==
    /\ Len(events) = 3
    /\ events[1].frame = 1 /\ events[2].frame = 2 /\ events[3].frame = 2
    /\ events[2].id # events[3].id
    /\ events[2].after.hover = events[2].id
    /\ events[3].event.hovered

(***************************************************************************)
(* C21: after a query for X with the pointer inside its region and the     *)
(* button down, a query for X in the same frame or the next with the       *)
(* pointer outside its region and the button down reports no click, and    *)
(* reports held exactly when X is still in the held slot as the query      *)
(* starts; the query that follows the press at once reports held.          *)
(***************************************************************************)
\* query i is a press on its identifier and query j a later query for the
\* same identifier, in the same frame or the next, that misses with the
\* button down
PressThenOutside(i, j) ==
    /\ i < j
    /\ events[i].id = events[j].id
    /\ StrictlyInside(events[i].input, events[i].region)
    /\ events[i].input.button = "down"
    /\ events[j].frame \in { events[i].frame, events[i].frame + 1 }
    /\ ~StrictlyInside(events[j].input, events[j].region)
    /\ events[j].input.button = "down"

\* C21 as stated: every such later query reports held and no click
C21_HeldAfterPress ==
    \A i \in 1..Len(events) : \A j \in 1..Len(events) :
        PressThenOutside(i, j) =>
            /\ events[j].event.held
            /\ ~events[j].event.clicked

C21_HeldWhileInSlot ==
    \A i \in 1..Len(events) : \A j \in 1..Len(events) :
        PressThenOutside(i, j) =>
            /\ ~events[j].event.clicked
            /\ events[j].event.held <=> events[j].before.held = events[j].id
            /\ j = i + 1 => events[j].event.held

\* a press in frame 1, the pointer outside with the button down in frame 2:
\* the first query of frame 2 reports held, the second does not
C21_Witness ==
    /\ Len(events) = 3
    /\ PressThenOutside(1, 2) /\ PressThenOutside(1, 3)
    /\ events[1].frame = 1 /\ events[2].frame = 2
    /\ events[1].region = events[2].region
    /\ events[2].event.held
    /\ ~events[3].event.held

(***************************************************************************)
(* C22: while a frame is built the hover slot holds the identifier of the  *)
(* last query of the frame that hit, none if no query hit yet, whatever    *)
(* queries hit before it; end_frame hands that identifier on.              *)
(***************************************************************************)
\* the queries of frame f, in order
QueriesOf(f) == SelectSeq(events, LAMBDA e : e.frame = f)

\* the identifiers of the queries of frame f that hit, in order
HitsOf(f) ==
    LET hits == SelectSeq(QueriesOf(f), LAMBDA e : StrictlyInside(e.input, e.region))
    IN [n \in 1..Len(hits) |-> hits[n].id]

C22_LastHitWinsHover ==
    /\ phase = "building" =>
           hover = IF HitsOf(frame) = <<>> THEN 0
                   ELSE HitsOf(frame)[Len(HitsOf(frame))]
    /\ phase = "view" =>
           previous_hover = IF HitsOf(frame) = <<>> THEN 0
                            ELSE HitsOf(frame)[Len(HitsOf(frame))]

\* the pointer is inside both regions; three queries of one frame hit, for
\* the second identifier, the first, and the second again
C22_Witness ==
    /\ phase = "view"
    /\ HitsOf(frame) = <<2, 1, 2>>
    /\ previous_hover = 2

(***************************************************************************)
(* C23: while X is in the held slot and the button is down, a query for a  *)
(* different identifier Y leaves X in the held slot, also when the pointer *)
(* hits the region of Y.                                                   *)
(***************************************************************************)
C23_HeldIsSticky ==
    \A i \in 1..Len(events) :
        ( /\ events[i].before.held # 0
          /\ events[i].before.held # events[i].id
          /\ events[i].input.button = "down" ) =>
              events[i].after.held = events[i].before.held

(***************************************************************************)
(* C24: polyline over N >= 2 points on a batch of k vertices appends, for  *)
(* each segment j of 0..N-2 in order, the indices k+2j, k+2j+1, k+2j+2,    *)
(* k+2j+1, k+2j+2, k+2j+3: the two triangles of segment j use the vertex   *)
(* pairs of points j and j+1, and each interior pair is used by the two    *)
(* segments that meet at its point.                                        *)
(***************************************************************************)
\* the six indices of segment j on a batch that held k vertices
SegmentIndicies(k, j) ==
    << k + 2 * j, k + 2 * j + 1, k + 2 * j + 2, k + 2 * j + 1, k + 2 * j + 2, k + 2 * j + 3 >>

\* the vertices segment j of the last call refers to
VertsOfSegment(j) == { NewIndicies[6 * j + n] : n \in 1..6 }

C24_PolylineIndexPattern ==
    (Called("polyline") /\ Len(Last.args.points) >= 2) =>
        /\ Len(NewIndicies) = 6 * (Len(Last.args.points) - 1)
        /\ \A j \in 0..(Len(Last.args.points) - 2) :
               /\ SubSeq(NewIndicies, 6 * j + 1, 6 * j + 6) = SegmentIndicies(Last.k, j)
               /\ VertsOfSegment(j) = (Last.k + 2 * j)..(Last.k + 2 * j + 3)
        /\ \A j \in 1..(Len(Last.args.points) - 2) :
               VertsOfSegment(j - 1) \cap VertsOfSegment(j)
                   = { Last.k + 2 * j, Last.k + 2 * j + 1 }

\* a line of three points, so with an interior point, appended to a batch
\* that held vertices
C24_Witness ==
    /\ Called("polyline")
    /\ Len(Last.args.points) = 3
    /\ Last.k > 0
    /\ SubSeq(NewIndicies, 7, 12) = SegmentIndicies(Last.k, 1)

(***************************************************************************)
(* C25: when a call returns, every index of the batch is strictly less     *)
(* than the number of vertices, for the six primitives and for extend      *)
(* called with indices smaller than the length of its vertex list; after   *)
(* polyline over at least 2 points the largest index it appended is the    *)
(* number of vertices minus 1.                                             *)
(***************************************************************************)
\* call c is extend with an index that is not an offset into its vertices
ExtendOutOfList(c) ==
    /\ calls[c].op = "extend"
    /\ \E n \in 1..Len(calls[c].args.indicies) :
           calls[c].args.indicies[n] >= Len(calls[c].args.verts)

\* the largest element of a non-empty sequence of numbers
MaxOf(seq) == CHOOSE x \in { seq[n] : n \in 1..Len(seq) } :
                  \A n \in 1..Len(seq) : seq[n] <= x

C25_IndexBelowCount ==
    /\ (\A c \in 1..Len(calls) : ~ExtendOutOfList(c)) =>
           \A i \in 1..Len(indicies) : indicies[i] < Len(verts)
    /\ (Called("polyline") /\ Len(Last.args.points) >= 2) =>
           MaxOf(NewIndicies) = Len(verts) - 1

\* extend with indices inside its vertex list, then polyline
C25_Witness ==
    /\ Len(calls) = 2
    /\ calls[1].op = "extend" /\ ~ExtendOutOfList(1) /\ Len(calls[1].args.indicies) > 0
    /\ Called("polyline")
    /\ Len(Last.args.points) = 3
    /\ MaxOf(NewIndicies) = Len(verts) - 1

(***************************************************************************)
(* C26: polyline through collinear points travelling in one axis-aligned   *)
(* direction d, with n = (-d.y, d.x) and half thickness h, gives every     *)
(* point p, the first, the interior ones and the last, the two vertices    *)
(* p - h*n and p + h*n in that order: the ribbon is not twisted and is 2h  *)
(* wide at every point.                                                    *)
(***************************************************************************)
\* the two positions are the same point (a zero equals a zero of either sign)
SamePosition(pos, v) == FSame(pos[1], v.x) /\ FSame(pos[2], v.y)

\* the last call is a polyline over at least 2 points that travel in the
\* direction d
StraightPolyline(d) ==
    /\ Called("polyline")
    /\ Len(Last.args.points) >= 2
    /\ Last.args.points = Walk(d, Straight(Len(Last.args.points)), Len(Last.args.points))

\* h * n for the last call and the direction d
HalfWidth(d) == Vec2Mul(Vec2Normal(d), FMul(Last.args.thickness, Half))

C26_PolylineNoTwist ==
    \A d \in Directions :
        StraightPolyline(d) =>
            \A i \in 1..Len(Last.args.points) :
                /\ SamePosition(NewVerts[2 * i - 1].pos,
                                Vec2Sub(Last.args.points[i], HalfWidth(d)))
                /\ SamePosition(NewVerts[2 * i].pos,
                                Vec2Add(Last.args.points[i], HalfWidth(d)))
                /\ SamePosition(NewVerts[2 * i].pos,
                                Vec2Add(Vec2(NewVerts[2 * i - 1].pos[1],
                                             NewVerts[2 * i - 1].pos[2]),
                                        Vec2Mul(HalfWidth(d), F(2))))

\* a straight line of three points towards negative y
C26_Witness ==
    /\ StraightPolyline(Pt(0, -1))
    /\ Len(Last.args.points) = 3
    /\ SamePosition(NewVerts[3].pos, Vec2(F(0), F(0)))
    /\ SamePosition(NewVerts[4].pos, Vec2(F(2), F(0)))

(***************************************************************************)
(* C27: rect_polyline gives the rectangle of every segment, the first as   *)
(* the later ones, the same vertex layout relative to the direction of     *)
(* travel: for the segment from p to q, with n the unit perpendicular of   *)
(* q - p and half thickness h, the 4 vertices are p - h*n, p + h*n,        *)
(* q - h*n, q + h*n in that order.                                         *)
(***************************************************************************)
\* the 4 positions the rectangle from p to q is to have, h being the half
\* thickness
RectLayout(p, q, h) ==
    LET o == Vec2Mul(SegmentNormal(p, q), h)
    IN << Vec2Sub(p, o), Vec2Add(p, o), Vec2Sub(q, o), Vec2Add(q, o) >>

\* the rectangle of segment j (from 0) of the last call has that layout
HasRectLayout(j) ==
    \A n \in 1..4 :
        SamePosition(NewVerts[4 * j + n].pos,
                     RectLayout(Last.args.points[j + 1], Last.args.points[j + 2],
                                FMul(Last.args.thickness, Half))[n])

C27_RectPolylineUniformLayout ==
    (Called("rect_polyline") /\ Len(Last.args.points) >= 2) =>
        \A j \in 0..(Len(Last.args.points) - 2) : HasRectLayout(j)

(***************************************************************************)
(* C28: the DrawData of lib.rs and the DrawData of draw.rs, started empty  *)
(* and given the same calls with the same arguments, hold the same         *)
(* vertices and the same indices after every call, and verts() and         *)
(* indicies() of draw.rs return those sequences and leave them as they     *)
(* were.                                                                   *)
(***************************************************************************)
C28_TwoDrawDataAgree ==
    /\ lib_verts = verts
    /\ lib_indicies = indicies
    /\ view # None =>
           /\ view[1].verts = lib_verts
           /\ view[1].indicies = lib_indicies

\* both were given two calls, the second a polyline over three points on a
\* batch that held vertices, and the accessors were called after it
C28_Witness ==
    /\ Len(calls) = 2
    /\ Called("polyline")
    /\ Len(Last.args.points) = 3
    /\ Last.k > 0
    /\ Len(lib_verts) = Last.k + 6
    /\ view # None
    /\ Len(view[1].indicies) = Len(lib_indicies)

(***************************************************************************)
(* C29: the pixels of a Texture are cells of their own, one for each       *)
(* (x, y): Texture::new(w, h) holds w*h pixels, all 0, and dimensions()    *)
(* returns (w, h); texture[(x, y)] reads the value last written at (x, y), *)
(* a write at (x, y) changes no other pixel, and an access with            *)
(* x >= width or y >= height is rejected and touches no pixel.             *)
(***************************************************************************)
\* the last access was to a coordinate outside the texture
OutsideTexture ==
    /\ access.kind \in { "read", "write" }
    /\ access.x >= texture.width \/ access.y >= texture.height

C29_TextureCells ==
    /\ Len(texture.pixels) = texture.width * texture.height
    /\ access.kind = "new" => \A i \in 1..Len(texture.pixels) : texture.pixels[i] = 0
    /\ access.kind = "dimensions" => access.value = << texture.width, texture.height >>
    /\ \A c \in Coordinates(texture) : TextureIndex(texture, c[1], c[2]) = cells[c]
    /\ (access.kind = "read" /\ ~OutsideTexture) =>
           access.value = cells[<< access.x, access.y >>]
    /\ OutsideTexture => access.outcome = "panic"

====
